---- MODULE Spec2Model ----
(***************************************************************************)
(* Model of src/string.hh: the small-string-optimised storage cell         *)
(* String::Data (a union of a Long and a Short layout that share their     *)
(* bytes), the owning String built on it, and StringOps::substr.           *)
(*                                                                         *)
(* A cell is modelled as the raw bytes of the union, so that the Short and *)
(* the Long fields really overlay each other: the fields of either layout  *)
(* are decoded from the same bytes (little endian).  The heap is a set of  *)
(* blocks with an allocated/released status and their first bytes.         *)
(*                                                                         *)
(* The member functions of Data that string.hh only declares (their bodies *)
(* are not part of the sources at hand) are modelled from the behaviour    *)
(* the specification gives them; each says so in its comment.              *)
(***************************************************************************)
EXTENDS Integers, Sequences, FiniteSets, TLC

VARIABLES obj,      \* obj[c]: the String named c: its Data bytes, active member, lifetime
          heap,     \* heap[p]: the block at address p of Allocator<char, String>
          badfree,  \* a deallocate of a block that is not allocated has happened
          sv        \* the StringOps::substr call under study and its outcome

vars == <<obj, heap, badfree, sv>>

(***************************************************************************)
(* Target and bounds                                                       *)
(***************************************************************************)
\* sizeof(size_t) and sizeof(char*) of the 32 bit target the layout comment names
SizeofSizeT == 4
\* number of heap blocks the allocator can hand out at the same time
MaxBlocks == 3
\* how many bytes past Short::capacity a content may grow byte by byte
MaxPast == 1
\* the byte values contents are made of (0 stands for a byte never written)
Bytes == {1}
\* the String objects of the program, in a fixed order
CellOrder == <<"a", "b">>
CellIds == {CellOrder[i] : i \in DOMAIN CellOrder}
BlockIds == 1..MaxBlocks

Min(x, y) == IF x <= y THEN x ELSE y
Max(x, y) == IF x >= y THEN x ELSE y

(***************************************************************************)
(* Layout of the union (string.hh 156-175)                                 *)
(***************************************************************************)
\* sizeof(Long): char* ptr; size_t size; size_t capacity
SizeofLong == 3 * SizeofSizeT
\* Long::max_capacity
Long_max_capacity == 2 ^ (8 * (SizeofSizeT - 1))
\* Short::capacity
Short_capacity == SizeofLong - 2
\* offsets of the fields in the union's bytes
OffPtr == 0
OffSize == SizeofSizeT
OffCapacity == 2 * SizeofSizeT
\* Short: char string[capacity+1] at offset 0, unsigned char size right after it
OffShortSize == Short_capacity + 1

\* longest content built byte by byte, and the heap bytes of a block that are tracked
MaxLen == Short_capacity + MaxPast
\* a size that only a heap buffer can have, half of Long::max_capacity
HalfMax == Long_max_capacity \div 2

RECURSIVE LoadLE(_, _, _)
\* the little-endian value of the n bytes of d from offset off
LoadLE(d, off, n) ==
    IF n = 0 THEN 0 ELSE d[off + 1] + 256 * LoadLE(d, off + 1, n - 1)

\* d with the size_t at offset off set to v (little endian)
StoreLE(d, off, v) ==
    [k \in 1..Len(d) |->
        IF k > off /\ k <= off + SizeofSizeT
        THEN (v \div (256 ^ (k - off - 1))) % 256
        ELSE d[k]]

l_ptr(d) == LoadLE(d, OffPtr, SizeofSizeT)
l_size(d) == LoadLE(d, OffSize, SizeofSizeT)
l_capacity(d) == LoadLE(d, OffCapacity, SizeofSizeT)
s_size(d) == d[OffShortSize + 1]

\* storage of a Data before a constructor has written it
RawBytes == [k \in 1..SizeofLong |-> 0]
\* a block that is not allocated, and a freshly allocated one
NoBlock == [live |-> FALSE, mem |-> [k \in 1..MaxLen |-> 0]]
NewBlock == [live |-> TRUE, mem |-> [k \in 1..MaxLen |-> 0]]

(***************************************************************************)
(* Data's inline members (string.hh 187-203)                               *)
(***************************************************************************)
is_long(d) == (s_size(d) % 2) = 0

\* size() without the shift that drops the mode bit
size_unshifted(d) == IF is_long(d) THEN l_size(d) ELSE s_size(d)

size(d) == IF is_long(d) THEN l_size(d) ELSE s_size(d) \div 2
capacity(d) == IF is_long(d) THEN l_capacity(d) ELSE Short_capacity

\* data(): l.ptr or s.string by is_long(); the first n bytes there, as far as they
\* are tracked (the bytes of a heap buffer past the tracked ones are not kept)
ReadBytes(x, n) ==
    LET src == IF is_long(x.d)
               THEN IF l_ptr(x.d) \in BlockIds THEN x.h[l_ptr(x.d)].mem
                    ELSE [k \in 1..MaxLen |-> 0]
               ELSE x.d
    IN [k \in 1..Min(n, MaxLen) |-> src[k]]

\* Data::set_empty that leaves the cell as it is
set_empty_nothing(x) == x

\* Data::set_empty
set_empty(x) == [x EXCEPT !.d[OffShortSize + 1] = 1, !.act = "s"]

(***************************************************************************)
(* Allocator<char, MemoryDomain::String>                                   *)
(***************************************************************************)
\* the address allocate returns: the lowest free block, 0 when none is left
Alloc(h) ==
    IF \E p \in BlockIds : ~h[p].live
    THEN CHOOSE p \in BlockIds : ~h[p].live /\ \A q \in BlockIds : q < p => h[q].live
    ELSE 0

deallocate(x, p) ==
    IF p \in BlockIds /\ x.h[p].live
    THEN [x EXCEPT !.h[p] = NoBlock]
    ELSE [x EXCEPT !.bad = TRUE]

\* memcpy(data() + off, src, Len(src)); writes past the tracked bytes are not kept
memcpy(x, off, src) ==
    IF is_long(x.d)
    THEN LET p == l_ptr(x.d) IN
         IF p \in BlockIds
         THEN [x EXCEPT !.h[p].mem =
                  [k \in 1..MaxLen |->
                      IF k > off /\ k <= off + Len(src) THEN src[k - off] ELSE @[k]]]
         ELSE x
    ELSE [x EXCEPT !.d =
             [k \in 1..SizeofLong |->
                 IF k > off /\ k <= off + Len(src) THEN src[k - off] ELSE @[k]]]

(***************************************************************************)
(* Data's out-of-line members (declared string.hh 178-204)                 *)
(***************************************************************************)
\* Data::release: gives the heap buffer back iff the cell is in heap mode
release(x) == IF is_long(x.d) THEN deallocate(x, l_ptr(x.d)) ELSE x

\* Data::set_size: l.size in heap mode, (size << 1) | 1 in the inline length byte
set_size(x, n) ==
    IF is_long(x.d)
    THEN [x EXCEPT !.d = StoreLE(@, OffSize, n)]
    ELSE [x EXCEPT !.d[OffShortSize + 1] = (2 * n + 1) % 256]

\* Data::set_short: inline layout holding the n bytes src
set_short(x, src, n) ==
    memcpy([x EXCEPT !.d[OffShortSize + 1] = (2 * n + 1) % 256, !.act = "s"], 0, src)

\* the cell made a heap cell of the block p: l.ptr, l.size, l.capacity written
SetLong(x, p, n, cap) ==
    [x EXCEPT !.d = StoreLE(StoreLE(StoreLE(@, OffPtr, p), OffSize, n), OffCapacity, cap),
              !.act = "l"]

\* Data::Data(const char* data, size_t size, size_t capacity)
Data_init(x, src, n, cap) ==
    IF cap > Short_capacity
    THEN LET p == Alloc(x.h) IN
         IF p = 0 THEN [x EXCEPT !.oom = TRUE]
         ELSE memcpy(SetLong([x EXCEPT !.h[p] = NewBlock], p, n, cap), 0, src)
    ELSE set_short(x, src, n)

\* Data::reserve<true>(new_capacity)
reserve(x, n) ==
    IF n <= capacity(x.d) THEN x
    ELSE LET new_capacity == Max(2 * capacity(x.d), n)
             new_ptr == Alloc(x.h)
             old == ReadBytes(x, size(x.d))
         IN IF new_ptr = 0 THEN [x EXCEPT !.oom = TRUE]
            ELSE SetLong(release([x EXCEPT !.h[new_ptr] =
                                     [live |-> TRUE,
                                      mem |-> [k \in 1..MaxLen |->
                                                 IF k <= Len(old) THEN old[k] ELSE 0]]]),
                         new_ptr, size(x.d), new_capacity)

\* Data::force_size(new_size): the size, no byte touched
force_size(x, n) == set_size(x, n)

\* Data::append(str, len): src holds the tracked bytes of str
append(x, src, len) ==
    LET new_size == size(x.d) + len
        x1 == reserve(x, new_size)
    IN set_size(memcpy(x1, size(x1.d), src), new_size)

\* Data::clear
clear(x) == set_size(x, 0)

(***************************************************************************)
(* Data's special members and String (string.hh 102-147, 177-185)          *)
(***************************************************************************)
\* Data::Data()
Data_default(x) == set_empty(x)

\* Data::Data(const char* data, size_t size)
Data_init2(x, src, n) == Data_init(x, src, n, n)

\* Data(const Data&) that takes the bits of other as they are
Data_copy_bits(x, o) == [x EXCEPT !.d = o.d, !.act = o.act]

\* Data::Data(const Data& other): o is other, read through the same heap
Data_copy(x, o) ==
    Data_init2(x, ReadBytes([x EXCEPT !.d = o.d], size(o.d)), size(o.d))

\* Data::Data(Data&& other): this takes other's bits, other is left empty
Data_move(x, o) ==
    [this |-> [x EXCEPT !.d = o.d, !.act = o.act],
     other |-> set_empty([x EXCEPT !.d = o.d, !.act = o.act])]

\* Data::operator=(const Data& other)
Data_copy_assign(x, o) == Data_copy(release(x), o)

\* Data::operator=(Data&& other)
Data_move_assign(x, o) == Data_move(release(x), o)

\* Data::~Data()
Data_destroy(x) == release(x)

String_length(x) == size(x.d)
String_append(x, src, count) == append(x, src, count)
String_push_back(x, c) == append(x, <<c>>, 1)
String_clear(x) == clear(x)
String_force_size(x, n) == force_size(x, n)
String_reserve(x, n) == reserve(x, n)

\* String::resize(size, c)
String_resize(x, n, c) ==
    IF n <= size(x.d) THEN force_size(x, n)
    ELSE LET x1 == reserve(x, n)
             old == size(x1.d)
         IN force_size(memcpy(x1, old, [k \in 1..(Min(n, MaxLen) - Min(old, MaxLen)) |-> c]), n)

\* the bytes [0, length()) of a String, as far as they are tracked
Content(x) == ReadBytes(x, size(x.d))

(***************************************************************************)
(* StringOps::substr (string.hh 85-87, 257-283) on a text given as its     *)
(* codepoints; a position is the byte offset from data()                   *)
(***************************************************************************)
\* INT_MAX of <climits>, the default length of substr
INT_MAX == 2147483647
\* the codepoints a text is made of: their size in bytes and their width in columns
Codepoints == {[bytes |-> 1, cols |-> 1], [bytes |-> 2, cols |-> 1],
               [bytes |-> 3, cols |-> 2]}
\* number of codepoints of the longest text
MaxChars == 2
Texts == UNION {[1..n -> Codepoints] : n \in 0..MaxChars}

RECURSIVE ByteLength(_)
\* length(): the bytes of the text
ByteLength(t) == IF t = <<>> THEN 0 ELSE Head(t).bytes + ByteLength(Tail(t))
RECURSIVE column_length(_)
column_length(t) == IF t = <<>> THEN 0 ELSE Head(t).cols + column_length(Tail(t))
char_length(t) == Len(t)

\* the codepoints of t that start at or after the byte offset pos
From(t, pos) ==
    LET Starts(i) == ByteLength(SubSeq(t, 1, i - 1))
        k == Cardinality({i \in 1..Len(t) : Starts(i) < pos})
    IN SubSeq(t, k + 1, Len(t))

RECURSIVE AdvanceChars(_, _)
\* the bytes of the first d codepoints of t, of all of t when it has fewer
AdvanceChars(t, d) ==
    IF t = <<>> \/ d <= 0 THEN 0 ELSE Head(t).bytes + AdvanceChars(Tail(t), d - 1)
RECURSIVE AdvanceColumns(_, _)
\* the bytes of the codepoints of t that d columns reach, of all of t when it is narrower
AdvanceColumns(t, d) ==
    IF t = <<>> \/ d <= 0 THEN 0
    ELSE Head(t).bytes + AdvanceColumns(Tail(t), d - Head(t).cols)

\* utf8::advance(it, end, CharCount d) and utf8::advance(it, end, ColumnCount d),
\* d >= 0, with it at the byte offset pos of t: the offset reached, at most end
advance_char(t, pos, d) == pos + AdvanceChars(From(t, pos), d)
advance_column(t, pos, d) == pos + AdvanceColumns(From(t, pos), d)

\* kak_assert(cond): halts a build that checks assertions, is nothing in one that does not
kak_assert(cond, debug) == debug /\ ~cond

\* StringView{data, length} and StringView{begin, end}
StringView(data, length) == [outcome |-> "view", data |-> data, length |-> length]
StringView_range(begin, end) == StringView(begin, end - begin)
Halted == [outcome |-> "assert", data |-> 0, length |-> 0]

\* substr(ByteCount, ByteCount) that leaves a negative length as it is
substr_byte_noclamp(t, from, length, debug) ==
    LET str_len == ByteLength(t)
    IN IF kak_assert(from >= 0 /\ from <= str_len, debug) THEN Halted
       ELSE StringView(from, Min(str_len - from, length))

\* substr(ByteCount, ByteCount) that asserts from >= 0 only
substr_byte_halfassert(t, from, length, debug) ==
    LET length1 == IF length < 0 THEN INT_MAX ELSE length
        str_len == ByteLength(t)
    IN IF kak_assert(from >= 0, debug) THEN Halted
       ELSE StringView(from, Min(str_len - from, length1))

\* StringOps::substr(ByteCount from, ByteCount length)
substr_byte(t, from, length, debug) ==
    LET length1 == IF length < 0 THEN INT_MAX ELSE length
        str_len == ByteLength(t)
    IN IF kak_assert(from >= 0 /\ from <= str_len, debug) THEN Halted
       ELSE StringView(from, Min(str_len - from, length1))

\* StringOps::substr(CharCount from, CharCount length)
substr_char(t, from, length) ==
    LET length1 == IF length < 0 THEN INT_MAX ELSE length
        beg == advance_char(t, 0, from)
    IN StringView_range(beg, advance_char(t, beg, length1))

\* StringOps::substr(ColumnCount from, ColumnCount length)
substr_column(t, from, length) ==
    LET length1 == IF length < 0 THEN INT_MAX ELSE length
        beg == advance_column(t, 0, from)
    IN StringView_range(beg, advance_column(t, beg, length1))

(***************************************************************************)
(* The program: two String objects a and b and the operations on them      *)
(***************************************************************************)
Rep(b, n) == [k \in 1..n |-> b]
\* the lengths around the inline boundary, and past it
Sizes == {0, 1, Short_capacity - 1, Short_capacity} \cup (Short_capacity + 1)..MaxLen
ConstructInputs == {Rep(b, n) : b \in Bytes, n \in Sizes}
AppendInputs == {<<>>} \cup {<<b>> : b \in Bytes}
                    \cup {<<b1, b2>> : b1 \in Bytes, b2 \in Bytes}
ReserveSizes == {0, Short_capacity, Short_capacity + 1, MaxLen + 1,
                 HalfMax, Long_max_capacity}
ForceSizes == Sizes \cup {HalfMax}

Unborn == [d |-> RawBytes, act |-> "none", alive |-> FALSE]

\* the String c together with the heap, as the operators above take it
X(c) == [d |-> obj[c].d, act |-> obj[c].act, h |-> heap, bad |-> badfree, oom |-> FALSE]
Obj(x) == [d |-> x.d, act |-> x.act, alive |-> TRUE]

\* What the program cannot tell apart is stored in one way:
\*  - the bytes of data() outside [0, size()) hold nothing the program reads (every
\*    operation reads data() below size() only, and the caller of a growing
\*    force_size writes the new bytes first): they are kept as 0, as are the bytes
\*    of a block that no String points to;
\*  - a pointer is only ever followed or handed back to the allocator, so the
\*    addresses are renamed: the blocks the Strings point to come first, in the
\*    order of the Strings, then the allocated blocks nothing points to.
Ref(cell) ==
    IF cell.alive /\ is_long(cell.d) /\ l_ptr(cell.d) \in BlockIds THEN l_ptr(cell.d) ELSE 0

Trim(blk, n) ==
    IF blk.live THEN [blk EXCEPT !.mem = [k \in 1..MaxLen |-> IF k <= n THEN @[k] ELSE 0]]
    ELSE NoBlock

Tidy(cell, p) ==
    IF ~cell.alive THEN cell
    ELSE IF is_long(cell.d)
    THEN IF p = 0 THEN cell ELSE [cell EXCEPT !.d = StoreLE(@, OffPtr, p)]
    ELSE [cell EXCEPT !.d = [k \in 1..SizeofLong |->
                                IF k > (s_size(cell.d) \div 2) /\ k <= Short_capacity + 1
                                THEN 0 ELSE @[k]]]

Forget(o, h) ==
    LET pa == Ref(o[CellOrder[1]])
        pb == Ref(o[CellOrder[2]])
        na == IF pa = 0 THEN 0 ELSE 1
        nb == IF pb = 0 THEN 0 ELSE IF pb = pa THEN 1 ELSE na + 1
        nrefs == IF nb = 0 THEN na ELSE nb
        lost == Cardinality({p \in BlockIds : h[p].live /\ p # pa /\ p # pb})
        sa == IF pa = 0 THEN 0 ELSE l_size(o[CellOrder[1]].d)
        sb == IF pb = 0 THEN 0 ELSE l_size(o[CellOrder[2]].d)
        b1 == IF pa # 0 THEN Trim(h[pa], IF pb = pa THEN Max(sa, sb) ELSE sa)
              ELSE IF pb # 0 THEN Trim(h[pb], sb) ELSE NoBlock
        b2 == IF nb = 2 THEN Trim(h[pb], sb) ELSE NoBlock
    IN [obj |-> (CellOrder[1] :> Tidy(o[CellOrder[1]], na))
                   @@ (CellOrder[2] :> Tidy(o[CellOrder[2]], nb)),
        heap |-> [j \in BlockIds |->
                    IF j <= nrefs THEN (IF j = 1 THEN b1 ELSE b2)
                    ELSE IF j <= nrefs + lost THEN NewBlock ELSE NoBlock]]

\* the state after an operation
Becomes(o, h, bad) ==
    \E f \in {Forget(o, h)} :
    /\ obj' = f.obj
    /\ heap' = f.heap
    /\ badfree' = bad
    /\ UNCHANGED sv

\* the operation's result becomes the state; an allocation failure ends the program
Put(c, x) ==
    /\ ~x.oom
    /\ Becomes([obj EXCEPT ![c] = Obj(x)], x.h, x.bad)

Put2(c, o, r) ==
    /\ ~r.this.oom
    /\ Becomes([obj EXCEPT ![c] = Obj(r.this), ![o] = Obj(r.other)], r.this.h, r.this.bad)

\* the caller of a growing force_size has written the bytes [size, n) through data()
WriteThrough(x, n, b) ==
    IF n > size(x.d)
    THEN memcpy(x, size(x.d), [k \in 1..(Min(n, MaxLen) - Min(size(x.d), MaxLen)) |-> b])
    ELSE x

\* What the callers of these operations ask for: a content stays within the tracked bytes
\* unless it already is of a size only a heap buffer has, a capacity stays within
\* Long::max_capacity, and force_size is called with n <= capacity().
CanAppend(d, len) ==
    \/ size(d) + len <= MaxLen
    \/ size(d) >= HalfMax /\ size(d) + len <= Long_max_capacity
CanReserve(d, n) == n > capacity(d) => Max(2 * capacity(d), n) <= Long_max_capacity
CanForceSize(d, n) == n <= capacity(d)

DefaultConstruct(c) ==
    /\ ~obj[c].alive
    /\ Put(c, Data_default(X(c)))

Construct(c, src) ==
    /\ ~obj[c].alive
    /\ Put(c, Data_init2(X(c), src, Len(src)))

CopyConstruct(c, o) ==
    /\ c # o /\ ~obj[c].alive /\ obj[o].alive
    /\ Put(c, Data_copy(X(c), obj[o]))

MoveConstruct(c, o) ==
    /\ c # o /\ ~obj[c].alive /\ obj[o].alive
    /\ Put2(c, o, Data_move(X(c), obj[o]))

CopyAssign(c, o) ==
    /\ c # o /\ obj[c].alive /\ obj[o].alive
    /\ Put(c, Data_copy_assign(X(c), obj[o]))

MoveAssign(c, o) ==
    /\ c # o /\ obj[c].alive /\ obj[o].alive
    /\ Put2(c, o, Data_move_assign(X(c), obj[o]))

Destroy(c) ==
    /\ obj[c].alive
    /\ LET x == Data_destroy(X(c)) IN
         Becomes([obj EXCEPT ![c] = Unborn], x.h, x.bad)

AppendStr(c, src) ==
    /\ obj[c].alive
    /\ CanAppend(obj[c].d, Len(src))
    /\ Put(c, String_append(X(c), src, Len(src)))

PushBack(c, b) ==
    /\ obj[c].alive
    /\ CanAppend(obj[c].d, 1)
    /\ Put(c, String_push_back(X(c), b))

Reserve(c, n) ==
    /\ obj[c].alive
    /\ CanReserve(obj[c].d, n)
    /\ Put(c, String_reserve(X(c), n))

Resize(c, n, b) ==
    /\ obj[c].alive
    /\ Put(c, String_resize(X(c), n, b))

Clear(c) ==
    /\ obj[c].alive
    /\ Put(c, String_clear(X(c)))

ForceSize(c, n, b) ==
    /\ obj[c].alive
    /\ CanForceSize(obj[c].d, n)
    /\ Put(c, String_force_size(WriteThrough(X(c), n, b), n))

\* no substr call made yet on the text t
SvIdle(t) == [op |-> "none", text |-> t, from |-> 0, length |-> 0, debug |-> FALSE,
              ret |-> StringView(0, 0)]

Init ==
    /\ obj = [c \in CellIds |-> Unborn]
    /\ heap = [p \in BlockIds |-> NoBlock]
    /\ badfree = FALSE
    /\ sv = SvIdle(<<>>)

Next ==
    \/ \E c \in CellIds : DefaultConstruct(c)
    \/ \E c \in CellIds, src \in ConstructInputs : Construct(c, src)
    \/ \E c \in CellIds, o \in CellIds : CopyConstruct(c, o)
    \/ \E c \in CellIds, o \in CellIds : MoveConstruct(c, o)
    \/ \E c \in CellIds, o \in CellIds : CopyAssign(c, o)
    \/ \E c \in CellIds, o \in CellIds : MoveAssign(c, o)
    \/ \E c \in CellIds : Destroy(c)
    \/ \E c \in CellIds, src \in AppendInputs : AppendStr(c, src)
    \/ \E c \in CellIds, b \in Bytes : PushBack(c, b)
    \/ \E c \in CellIds, n \in ReserveSizes : Reserve(c, n)
    \/ \E c \in CellIds, n \in Sizes, b \in Bytes : Resize(c, n, b)
    \/ \E c \in CellIds : Clear(c)
    \/ \E c \in CellIds, n \in ForceSizes, b \in Bytes : ForceSize(c, n, b)

Spec == Init /\ [][Next]_vars

(***************************************************************************)
(* The calls of substr on a text                                           *)
(***************************************************************************)
Lengths == {-1, 0, 1, 2, INT_MAX}
Offsets(n) == -1..(n + 1)

Called(op, from, length, debug, ret) ==
    /\ sv' = [op |-> op, text |-> sv.text, from |-> from, length |-> length,
              debug |-> debug, ret |-> ret]
    /\ UNCHANGED <<obj, heap, badfree>>

SubstrByte(from, length, debug) ==
    Called("byte", from, length, debug, substr_byte(sv.text, from, length, debug))

\* a negative CharCount or ColumnCount makes utf8::advance walk backwards from
\* begin(): the callers modelled start at 0 or later
SubstrChar(from, length, debug) ==
    /\ from >= 0
    /\ Called("char", from, length, debug, substr_char(sv.text, from, length))

SubstrColumn(from, length, debug) ==
    /\ from >= 0
    /\ Called("column", from, length, debug, substr_column(sv.text, from, length))

InitSubstr ==
    /\ obj = [c \in CellIds |-> Unborn]
    /\ heap = [p \in BlockIds |-> NoBlock]
    /\ badfree = FALSE
    /\ sv \in {SvIdle(t) : t \in Texts}

NextSubstr ==
    \/ \E from \in Offsets(ByteLength(sv.text)), length \in Lengths, debug \in BOOLEAN :
          SubstrByte(from, length, debug)
    \/ \E from \in Offsets(char_length(sv.text)), length \in Lengths, debug \in BOOLEAN :
          SubstrChar(from, length, debug)
    \/ \E from \in Offsets(column_length(sv.text)), length \in Lengths, debug \in BOOLEAN :
          SubstrColumn(from, length, debug)

SpecSubstr == InitSubstr /\ [][NextSubstr]_vars

(***************************************************************************)
(* Properties                                                              *)
(***************************************************************************)
Alive == {c \in CellIds : obj[c].alive}

\* every call of a mutating member the callers may make on the String x, with the
\* capacity the call needs (need) and the String it leaves (to)
Appends(x) ==
    {[op |-> "append", need |-> size(x.d) + Len(src), src |-> src,
      to |-> String_append(x, src, Len(src))] :
        src \in {a \in AppendInputs : CanAppend(x.d, Len(a))}}
PushBacks(x) ==
    {[op |-> "push_back", need |-> size(x.d) + 1, src |-> <<b>>,
      to |-> String_push_back(x, b)] : b \in {a \in Bytes : CanAppend(x.d, 1)}}
Reserves(x) ==
    {[op |-> "reserve", need |-> n, src |-> <<>>, to |-> String_reserve(x, n)] :
        n \in {m \in ReserveSizes : CanReserve(x.d, m)}}
Resizes(x) ==
    {[op |-> "resize", need |-> n, src |-> <<>>, to |-> String_resize(x, n, b)] :
        n \in Sizes, b \in Bytes}
Clears(x) == {[op |-> "clear", need |-> 0, src |-> <<>>, to |-> String_clear(x)]}
ForceSizes_(x) ==
    {[op |-> "force_size", need |-> 0, src |-> <<>>,
      to |-> String_force_size(WriteThrough(x, n, b), n)] :
        n \in {m \in ForceSizes : CanForceSize(x.d, m)}, b \in Bytes}
Mutations(x) ==
    {m \in Appends(x) \cup PushBacks(x) \cup Reserves(x) \cup Resizes(x)
           \cup Clears(x) \cup ForceSizes_(x) : ~m.to.oom}

\* the bytes [0, size()) of the String whose Data is d, read through the heap h
ContentIn(d, h) == ReadBytes([d |-> d, h |-> h], size(d))
SameBytes(s, t) == Len(s) = Len(t) /\ \A k \in 1..Len(s) : s[k] = t[k]

\* C1: in every state the program reaches, every String has size() <= capacity(),
\* and capacity() is at most Short::capacity for an inline cell and at most
\* Long::max_capacity for a heap cell.
C1_SizeCapacityInvariant ==
    \A c \in Alive :
        /\ size(obj[c].d) <= capacity(obj[c].d)
        /\ capacity(obj[c].d) <= (IF is_long(obj[c].d) THEN Long_max_capacity
                                  ELSE Short_capacity)

\* C1 witness: a heap cell filled up to its capacity, next to an inline cell
C1_Witness ==
    \E c \in Alive, o \in Alive :
        /\ is_long(obj[c].d) /\ size(obj[c].d) = capacity(obj[c].d)
        /\ ~is_long(obj[o].d) /\ size(obj[o].d) = Short_capacity

Moved(c, o) ==
    IF obj[c].alive THEN Data_move_assign(X(c), obj[o]) ELSE Data_move(X(c), obj[o])
\* the String c after b = a or String b{a}, with a = o, b = c
Copied(c, o) ==
    IF obj[c].alive THEN Data_copy_assign(X(c), obj[o]) ELSE Data_copy(X(c), obj[o])
Pairs == {p \in CellIds \X CellIds : p[1] # p[2] /\ obj[p[2]].alive}

C5_CopyIndependent ==
    /\ \A p \in Pairs :
          LET r == Copied(p[1], p[2])
              a == obj[p[2]]
          IN ~r.oom =>
                /\ size(r.d) = size(a.d)
                /\ SameBytes(Content(r), ContentIn(a.d, heap))
                /\ SameBytes(ContentIn(a.d, r.h), ContentIn(a.d, heap))
                /\ is_long(a.d) => r.h[l_ptr(a.d)].live
                /\ is_long(a.d) /\ is_long(r.d) => l_ptr(r.d) # l_ptr(a.d)
    /\ \A p \in Pairs :
          obj[p[1]].alive =>
             \A m \in Mutations(X(p[1])) :
                LET a == obj[p[2]]
                IN /\ SameBytes(ContentIn(a.d, m.to.h), ContentIn(a.d, heap))
                   /\ is_long(a.d) => m.to.h[l_ptr(a.d)].live

\* C5 witness: two heap-mode Strings of the same content in two blocks, as a copy
\* leaves them, one of which a reserve moves to a third block
C5_Witness ==
    \E p \in Pairs :
        /\ obj[p[1]].alive /\ is_long(obj[p[1]].d) /\ is_long(obj[p[2]].d)
        /\ size(obj[p[1]].d) > Short_capacity
        /\ Copied(p[1], p[2]).d = obj[p[1]].d
        /\ l_ptr(obj[p[1]].d) # l_ptr(obj[p[2]].d)
        /\ \E m \in Reserves(X(p[1])) :
              ~m.to.oom /\ l_ptr(m.to.d) \notin {l_ptr(obj[p[1]].d), l_ptr(obj[p[2]].d)}

UnitLength ==
    IF sv.op = "byte" THEN ByteLength(sv.text)
    ELSE IF sv.op = "char" THEN char_length(sv.text) ELSE column_length(sv.text)
StartOutside == sv.from < 0 \/ sv.from > UnitLength
ViewInside ==
    /\ sv.ret.data >= 0
    /\ sv.ret.length >= 0
    /\ sv.ret.data + sv.ret.length <= ByteLength(sv.text)

\* C9: substr(ByteCount from, ByteCount length) with 0 <= from <= L returns the view
\* that starts at data() + from and has the length min(L - from, length), a negative
\* length counting as the rest of the string.
C9_SubstrByte ==
    sv.op = "byte" /\ sv.from >= 0 /\ sv.from <= ByteLength(sv.text) =>
        LET rest == ByteLength(sv.text) - sv.from
        IN /\ sv.ret.outcome = "view"
           /\ sv.ret.data = sv.from
           /\ sv.ret.length = (IF sv.length < 0 \/ sv.length > rest THEN rest
                               ELSE sv.length)
           /\ sv.from = ByteLength(sv.text) => sv.ret.length = 0

\* C9 witness: a negative length from the middle of a text gives its suffix
C9_Witness ==
    /\ sv.op = "byte" /\ sv.length < 0
    /\ sv.from > 0 /\ sv.from < ByteLength(sv.text)
    /\ sv.ret.outcome = "view"
    /\ sv.ret.length = ByteLength(sv.text) - sv.from

\* C10 as amended: only substr(ByteCount, ByteCount) asserts its start offset: where
\* assertions are checked it halts exactly when from is outside [0, length], and
\* where they are not it returns the view at data() + from all the same.  The
\* CharCount and the ColumnCount overload never halt: a start offset beyond the
\* length gives the empty view at the end.  Every overload takes a negative length
\* as the rest of the string, and a view returned for a start offset inside
\* [0, length] lies inside the text.
C10_OnlyByteOverloadAsserts ==
    /\ sv.op = "byte" /\ sv.debug => (sv.ret.outcome = "assert" <=> StartOutside)
    /\ sv.op = "byte" /\ ~sv.debug => sv.ret.outcome = "view" /\ sv.ret.data = sv.from
    /\ sv.op \in {"char", "column"} =>
          /\ sv.ret.outcome = "view"
          /\ StartOutside =>
                sv.ret.data = ByteLength(sv.text) /\ sv.ret.length = 0
    /\ sv.op # "none" /\ ~StartOutside =>
          /\ ViewInside
          /\ sv.length < 0 => sv.ret.data + sv.ret.length = ByteLength(sv.text)

\* C10 witness: where assertions are checked, substr(CharCount, CharCount) with a
\* start offset beyond the length returns a view
C10_Witness ==
    /\ sv.op = "char" /\ sv.debug
    /\ sv.from > char_length(sv.text) /\ sv.text # <<>>
    /\ sv.ret.outcome = "view"

\* C10: each of the three overloads reaches the assertion when the start offset is
\* negative or beyond the length (where assertions are checked), and a view that is
\* returned lies inside the text.
C10_EveryOverloadAsserts ==
    sv.op # "none" /\ sv.debug =>
        /\ StartOutside => sv.ret.outcome = "assert"
        /\ sv.ret.outcome = "view" => ViewInside

====
